---- MODULE Spec2Model ----
(***************************************************************************)
(* Lando API: the landing request life cycle.                              *)
(*                                                                         *)
(*   POST /landings           -> api.landings.post -> Landing.create       *)
(*   POST /landings/update    -> api.landings.update (Transplant pingback) *)
(*   GET  /landings/{id}      -> api.landings.get                          *)
(*   GET  /landings           -> api.landings.get_list                     *)
(*                                                                         *)
(* The store (table "landings"), the S3 bucket with the uploaded patches   *)
(* and the land calls received by Transplant are the state.  What          *)
(* Phabricator and Transplant answer to one request is an input of the     *)
(* request.                                                                *)
(***************************************************************************)
EXTENDS Integers, Sequences, FiniteSets, TLC

\* ---------------------------------------------------------------- bounds
MaxLandings == 1        \* rows the table "landings" may hold
MaxRows == 2            \* the same, where two landings have to meet
MaxIdLen == 3           \* characters of a revision id as the client sends it
MaxDepth == 5           \* generators the interpreter lets a walk nest

\* Python's None; `if x:` is false for None and for 0 alike
None == 0

\* the revision ids and the diff ids the requests name
RevIds == {1, 2}
DiffIds == {1, 2}
\* the job ids a pingback may name
JobIds == 1..(2 * MaxLandings)

\* ------------------------------------------------------------- constants
\* LandingStatus (models/landing.py)
aborted == "aborted"
job_submitted == "submitted"
job_landed == "landed"
job_failed == "failed"
LandingStatus == {aborted, job_submitted, job_landed, job_failed}

\* the deployment's settings
SomeApiKey == "someapikey"
WrongApiKey == "wrongapikey"
\* a request without the API-Key header
NoHeader == "<absent>"
ApiKeyHeaders == {SomeApiKey, WrongApiKey, NoHeader}

\* a pingback payload without the optional field
Absent == "<absent>"
\* the pingback payloads: landed, error_msg, result
Payloads ==
    {[landed |-> TRUE, error_msg |-> Absent, result |-> "sha123"],
     [landed |-> FALSE, error_msg |-> "patch does not apply", result |-> Absent],
     [landed |-> FALSE, error_msg |-> "patch does not apply", result |-> "sha123"]}

VARIABLES
    landings,       \* table "landings": row i is the Landing with id i
    patches,        \* table "patches"
    s3,             \* the patches uploaded to the bucket
    transplant,     \* the land calls Transplant has received
    config,         \* current_app.config
    world,          \* the clients and the services around the container
    creating,       \* the Landing.create calls under way, by worker
    helper,         \* the last call of a function that has no state
    updating,       \* the pingbacks under way, by worker
    request,        \* the request handled last
    response,       \* the answer it got
    before          \* and what was stored when it came in

vars == <<landings, patches, s3, transplant, config, world, creating,
          helper, updating, request, response, before>>

\* what is stored
Store ==
    [landings |-> landings, patches |-> patches, s3 |-> s3,
     transplant |-> transplant]

\* ------------------------------------------------------------ Landing
\* mutant: the active diff is stored only when it is not the diff landed
Landing_active_if_different(id, revision_id, diff_id, active_diff_id) ==
    [id |-> id,
     request_id |-> None,
     revision_id |-> revision_id,
     diff_id |-> diff_id,
     active_diff_id |-> IF active_diff_id = diff_id THEN None
                        ELSE active_diff_id,
     status |-> "aborted",
     error |-> "",
     result |-> ""]

\* Landing.__init__ followed by the first save(): the column defaults
\* (error, result) are applied by the insert, which also assigns the id.
Landing(id, revision_id, diff_id, active_diff_id) ==
    [id |-> id,
     request_id |-> None,
     revision_id |-> revision_id,
     diff_id |-> diff_id,
     active_diff_id |-> active_diff_id,
     status |-> aborted,
     error |-> "",
     result |-> ""]

\* mutant: the check of the diff against the active one is left out
validate_diff_no_inactive(diff_id, active_id, override_diff_id) ==
    IF override_diff_id # None /\ override_diff_id # active_id
    THEN "OverrideDiffException"
    ELSE "ok"

\* mutant: the override is compared with the diff to land
validate_diff_override_vs_diff(diff_id, active_id, override_diff_id) ==
    IF override_diff_id # None
    THEN IF override_diff_id # diff_id
         THEN "OverrideDiffException"
         ELSE "ok"
    ELSE IF diff_id # active_id
         THEN "InactiveDiffException"
         ELSE "ok"

\* mutant: an override is accepted for a stale diff only
validate_diff_stale_only(diff_id, active_id, override_diff_id) ==
    IF override_diff_id # None
    THEN IF override_diff_id # active_id \/ diff_id = active_id
         THEN "OverrideDiffException"
         ELSE "ok"
    ELSE IF diff_id # active_id
         THEN "InactiveDiffException"
         ELSE "ok"

\* Landing.create, the validation of the diff to land
validate_diff(diff_id, active_id, override_diff_id) ==
    IF override_diff_id # None
    THEN IF override_diff_id # active_id
         THEN "OverrideDiffException"
         ELSE "ok"
    ELSE IF diff_id # active_id
         THEN "InactiveDiffException"
         ELSE "ok"

\* mutant: the status is not written
job_started_keeps_status(landing, request_id) ==
    [landing EXCEPT !.request_id = request_id]

\* mutant: the status is written, the job id is not
job_started_without_job(landing, request_id) ==
    [landing EXCEPT !.status = job_submitted]

\* Landing.create, the end: the job id and the status are written
job_started(landing, request_id) ==
    [landing EXCEPT !.request_id = request_id, !.status = job_submitted]

\* mutant: a failed job puts the landing back to 'submitted'
set_status_resubmits(landing, landed, error, result) ==
    [landing EXCEPT !.error = error,
                    !.result = result,
                    !.status = IF landed THEN "landed" ELSE "submitted"]

\* mutant: the job is over, its id is taken off the landing
set_status_clears_job(landing, landed, error, result) ==
    [landing EXCEPT !.request_id = None,
                    !.error = error,
                    !.result = result,
                    !.status = IF landed THEN "landed" ELSE "failed"]

\* mutant: the first pingback wins, a landing that is 'landed' or 'failed'
\* is left as it is
set_status_once(landing, landed, error, result) ==
    IF landing.status \in {"landed", "failed"} THEN landing
    ELSE [landing EXCEPT !.error = error,
                         !.result = result,
                         !.status = IF landed THEN "landed" ELSE "failed"]

\* mutant: error and result are taken for each other
set_status_swapped(landing, landed, error, result) ==
    [landing EXCEPT !.error = result,
                    !.result = error,
                    !.status = IF landed THEN "landed" ELSE "failed"]

\* Landing.set_status
set_status(landing, landed, error, result) ==
    [landing EXCEPT !.error = error,
                    !.result = result,
                    !.status = IF landed THEN job_landed ELSE job_failed]

\* _upload_patch_to_s3: the name of the patch, 'L{}_D{}_{}.patch'
patch_url(landing_id, revision_id, diff_id) ==
    <<landing_id, revision_id, diff_id>>

\* ------------------------------------------------------ the two services
\* What Phabricator answers during one Landing.create:
\*   revision   get_revision(id) found the revision (it exists and the
\*              caller may see it)
\*   active_id  diff_phid_to_id(revision['activeDiffPHID']), None when the
\*              phid.query result is empty
\*   rawdiff    get_rawdiff(diff_id) returned a non-empty text
PhabAnswersFor(diffs) ==
    [revision : {FALSE}, active_id : {None}, rawdiff : {FALSE}]
    \cup [revision : {TRUE}, active_id : {None} \cup diffs, rawdiff : BOOLEAN]

PhabAnswers == PhabAnswersFor(DiffIds)

NoPhab == [revision |-> FALSE, active_id |-> None, rawdiff |-> FALSE]

\* call_conduit raises PhabricatorAPIException (an error response) or
\* PhabricatorCommunicationException (the request or the decoding of the
\* answer failed): the calls of Landing.create that may end so
PhabFaults ==
    {"get_revision", "diff_phid_to_id", "get_rawdiff", "get_revision_repo"}

\* PhabricatorClient.get_dependency_tree, a generator, as the sequence of
\* what it yields: each parent of the revision, in the order of
\* 'phabricator:depends-on', followed by the tree of that parent.  deps
\* gives the parents of every revision.
RECURSIVE dependency_tree_of(_, _, _)
dependency_tree_of(deps, phids, recursive) ==
    IF phids = <<>> THEN <<>>
    ELSE <<Head(phids)>>
         \o (IF recursive
             THEN dependency_tree_of(deps, deps[Head(phids)], TRUE)
             ELSE <<>>)
         \o dependency_tree_of(deps, Tail(phids), recursive)

get_dependency_tree(deps, revision, recursive) ==
    dependency_tree_of(deps, deps[revision], recursive)

\* phabricator.Statuses, the values Phabricator gives for a revision
NEEDS_REVIEW == "0"
NEEDS_REVISION == "1"
APPROVED == "2"
CLOSED == "3"
ABANDONED == "4"
CHANGES_PLANNED == "5"

CLOSED_STATUSES == {CLOSED, ABANDONED}
OPEN_STATUSES == {NEEDS_REVIEW, NEEDS_REVISION, APPROVED, CHANGES_PLANNED}

\* the first element of the walk whose status is one of statuses, or None
RECURSIVE first_with_status(_, _, _)
first_with_status(tree, status, statuses) ==
    IF tree = <<>> THEN None
    ELSE IF status[Head(tree)] \in statuses THEN Head(tree)
    ELSE first_with_status(Tail(tree), status, statuses)

\* mutant: only the revisions the revision depends on directly are looked at
get_first_open_parent_revision_direct(deps, status, revision) ==
    first_with_status(get_dependency_tree(deps, revision, FALSE), status,
                      OPEN_STATUSES)

\* PhabricatorClient.get_first_open_parent_revision(revision), with the
\* revisions Phabricator has: deps is their 'phabricator:depends-on',
\* status their 'status'
get_first_open_parent_revision(deps, status, revision) ==
    first_with_status(get_dependency_tree(deps, revision, TRUE), status,
                      OPEN_STATUSES)

\* ---- the generator of get_dependency_tree, one next() at a time
\* A walk is the generator with its consumer: frames are the generators
\* nested by `yield from`, the innermost first, each the revisions its
\* loop has still to yield; yielded is what the consumer has got so far.
\* The consumer is "all" (the generator is run until it is exhausted) or
\* "first_open" (the loop of get_first_open_parent_revision).
Walk(deps, status, revision, consumer) ==
    [fn |-> "dependency_walk",
     arg |-> [deps |-> deps, status |-> status, revision |-> revision,
              consumer |-> consumer],
     frames |-> <<deps[revision]>>, yielded |-> <<>>, pc |-> "running",
     result |-> None]

\* the generators that have come to their end return to the one that
\* delegated to them
RECURSIVE unwind(_)
unwind(frames) ==
    IF frames = <<>> THEN <<>>
    ELSE IF Head(frames) = <<>> THEN unwind(Tail(frames))
    ELSE frames

\* what the consumer does with the revision it got
consume(walk, revision) ==
    IF walk.arg.consumer = "first_open"
            /\ walk.arg.status[revision] \in OPEN_STATUSES
    THEN [walk EXCEPT !.pc = "returned", !.result = revision]
    ELSE walk

\* mutant: a revision yielded before is not walked into again
next_revision_once(walk) ==
    LET frames == unwind(walk.frames)
    IN  IF frames = <<>> THEN [walk EXCEPT !.frames = <<>>,
                                           !.pc = "exhausted"]
        ELSE IF Len(frames) > MaxDepth
        THEN [walk EXCEPT !.frames = frames, !.pc = "RecursionError"]
        ELSE LET revision == Head(Head(frames))
                 seen == \E k \in 1..Len(walk.yielded) :
                            walk.yielded[k] = revision
                 rest == <<Tail(Head(frames))>> \o Tail(frames)
             IN  consume([walk EXCEPT
                            !.frames = IF seen THEN rest
                                       ELSE <<walk.arg.deps[revision]>>
                                            \o rest,
                            !.yielded = Append(@, revision)],
                         revision)

\* mutant: the other revisions of the loop come before the revisions the
\* yielded one depends on
next_revision_siblings_first(walk) ==
    LET frames == unwind(walk.frames)
    IN  IF frames = <<>> THEN [walk EXCEPT !.frames = <<>>,
                                           !.pc = "exhausted"]
        ELSE IF Len(frames) > MaxDepth
        THEN [walk EXCEPT !.frames = frames, !.pc = "RecursionError"]
        ELSE LET revision == Head(Head(frames))
             IN  consume([walk EXCEPT
                            !.frames = <<Tail(Head(frames))>>
                                       \o <<walk.arg.deps[revision]>>
                                       \o Tail(frames),
                            !.yielded = Append(@, revision)],
                         revision)

\* next() of the generator: StopIteration when no generator is left;
\* else the innermost loop yields its next revision and delegates to the
\* generator of that revision (`yield from`), which is resumed first.
\* The interpreter ends a walk nested deeper than its recursion limit
\* with RecursionError.
next_revision(walk) ==
    LET frames == unwind(walk.frames)
    IN  IF frames = <<>> THEN [walk EXCEPT !.frames = <<>>,
                                           !.pc = "exhausted"]
        ELSE IF Len(frames) > MaxDepth
        THEN [walk EXCEPT !.frames = frames, !.pc = "RecursionError"]
        ELSE LET revision == Head(Head(frames))
             IN  consume([walk EXCEPT
                            !.frames = <<walk.arg.deps[revision]>>
                                       \o <<Tail(Head(frames))>>
                                       \o Tail(frames),
                            !.yielded = Append(@, revision)],
                         revision)

\* TransplantClient.land: the id of the new job, or a falsy value when the
\* service cannot be reached, answers with an error or answers with an
\* empty body.  Transplant numbers its jobs itself (they are not the ids
\* of the landings) and hands out no id twice.
land_results(calls) == {None, 2 * (Cardinality(calls) + 1)}

\* a Transplant that is not taken on faith: it may also answer with the id
\* of a job it has handed out before
land_results_reused(calls) ==
    {None} \cup {2 * k : k \in 1..(Cardinality(calls) + 1)}

\* ------------------------------------------------------------ the store
Ids == 1..Len(landings)

\* mutant: the table keeps one landing for a revision, a new one takes
\* the place of the earlier
save_one_per_revision(rows, landing) ==
    IF landing.id \in 1..Len(rows) /\ rows[landing.id].id = landing.id
    THEN [rows EXCEPT ![landing.id] = landing]
    ELSE Append(SelectSeq(rows,
                    LAMBDA row : row.revision_id # landing.revision_id),
                landing)

\* mutant: a landing of a revision and diff that are stored already is
\* not stored a second time
save_deduplicated(rows, landing) ==
    IF landing.id \in 1..Len(rows)
    THEN [rows EXCEPT ![landing.id] = landing]
    ELSE IF \E i \in 1..Len(rows) :
                /\ rows[i].revision_id = landing.revision_id
                /\ rows[i].diff_id = landing.diff_id
         THEN rows
         ELSE Append(rows, landing)

\* Landing.save: db.session.add for a new landing, and the commit
save(rows, landing) ==
    IF landing.id \in 1..Len(rows)
    THEN [rows EXCEPT ![landing.id] = landing]
    ELSE Append(rows, landing)

\* mutant: the landing is looked up among those that have a job,
\* whichever job it is
filter_by_any_job(rows, request_id) ==
    {i \in 1..Len(rows) : rows[i].request_id # None}

\* mutant: the landing is looked up by its own id
filter_by_id(rows, request_id) ==
    {i \in 1..Len(rows) : rows[i].id = request_id}

\* mutant: a landing that has no job id yet is found by any job id
filter_by_request_id_or_null(rows, request_id) ==
    {i \in 1..Len(rows) :
        rows[i].request_id = None \/ rows[i].request_id = request_id}

\* Landing.query.filter_by(request_id=...): NULL matches no value
filter_by_request_id(rows, request_id) ==
    {i \in 1..Len(rows) :
        rows[i].request_id # None /\ rows[i].request_id = request_id}

\* mutant: the column request_id is not unique
request_id_taken_never(rows, request_id) == FALSE

\* request_id = db.Column(db.Integer, unique=True): the commit of a row
\* with a request_id that another row has raises IntegrityError
request_id_taken(rows, request_id) ==
    \E i \in 1..Len(rows) :
        rows[i].request_id # None /\ rows[i].request_id = request_id

\* Landing.serialize, without the two timestamps
serialize(landing) ==
    [id |-> landing.id,
     revision_id |-> landing.revision_id,
     request_id |-> landing.request_id,
     diff_id |-> landing.diff_id,
     active_diff_id |-> landing.active_diff_id,
     status |-> landing.status,
     error_msg |-> landing.error,
     result |-> landing.result]

\* Landing.query.filter_by(revision_id=...).all()
filter_by_revision_id(rows, revision_id) ==
    {i \in 1..Len(rows) : rows[i].revision_id = revision_id}

\* --------------------------------------------------------- api.landings
\* post: the except clauses, exception -> status of the problem response
post_status(exc) ==
    CASE exc = "RevisionNotFoundException" -> 404
      [] exc = "DiffNotFoundException" -> 404
      [] exc = "InactiveDiffException" -> 409
      [] exc = "OverrideDiffException" -> 409
      [] exc = "LandingNotCreatedException" -> 502
      [] exc = "ok" -> 202

\* update: request.headers.get('API-Key', '')
passed_key(header) == IF header = NoHeader THEN "" ELSE header

\* update: hmac.compare_digest(passed_key, required_key)
compare_digest(a, b) == a = b

\* update: data.get('error_msg', ''), data.get('result', '')
get_or_empty(field) == IF field = Absent THEN "" ELSE field

\* mutant: the API key is not checked
pingback_denied_enabled_only(cfg, header) ==
    cfg.PINGBACK_ENABLED # "y"

\* mutant: PINGBACK_ENABLED is not checked
pingback_denied_key_only(cfg, header) ==
    header # cfg.TRANSPLANT_API_KEY

\* update: the two checks made before the landing is looked up
pingback_denied(cfg, header) ==
    \/ cfg.PINGBACK_ENABLED # "y"
    \/ ~compare_digest(passed_key(header), cfg.TRANSPLANT_API_KEY)

NoRequest ==
    [op |-> "none", revision_id |-> 0, diff_id |-> 0, override_diff_id |-> None,
     phab |-> NoPhab, land |-> None,
     api_key |-> NoHeader, request_id |-> 0, landed |-> FALSE,
     error_msg |-> Absent, result |-> Absent, landing_id |-> 0,
     fault |-> "none", status |-> Absent]

NoResponse ==
    [status |-> 0, exc |-> "none", id |-> 0,
     diff_id |-> 0, active_diff_id |-> 0, override_diff_id |-> 0,
     body |-> {}]

PostRequest(revision_id, diff_id, override_diff_id, phab, land) ==
    [NoRequest EXCEPT !.op = "post", !.revision_id = revision_id,
                      !.diff_id = diff_id,
                      !.override_diff_id = override_diff_id,
                      !.phab = phab, !.land = land]

UpdateRequest(api_key, request_id, landed, error_msg, result) ==
    [NoRequest EXCEPT !.op = "update", !.api_key = api_key,
                      !.request_id = request_id, !.landed = landed,
                      !.error_msg = error_msg, !.result = result]

\* get: phab says whether the caller may see the revision of the landing
GetRequest(landing_id, phab) ==
    [NoRequest EXCEPT !.op = "get", !.landing_id = landing_id, !.phab = phab]

\* get_list: the same for the revision asked for
GetListRequest(revision_id, phab) ==
    [NoRequest EXCEPT !.op = "get_list", !.revision_id = revision_id,
                      !.phab = phab]

\* the problem response of post for an exception of Landing.create; the
\* exception carries the diff ids it was raised with
Raised(exc, diff_id, active_id, override_diff_id) ==
    [NoResponse EXCEPT !.status = post_status(exc), !.exc = exc,
                       !.diff_id = diff_id, !.active_diff_id = active_id,
                       !.override_diff_id = override_diff_id]

\* ----------------------------------------------------- Landing.create
\* the workers of the container, each handles one request at a time
Workers == {"w1", "w2"}

\* a worker that is not in Landing.create; exc is how its last call ended
Idle ==
    [pc |-> "idle", revision_id |-> 0, diff_id |-> 0, phab |-> NoPhab,
     landing |-> Landing(None, 0, 0, None), s3_url |-> <<>>,
     request_id |-> None, called |-> FALSE, exc |-> "none"]

\* mutant: Transplant is called before the landing is saved
after_land_first(step) ==
    CASE step = "begin" -> "upload"
      [] step = "upload" -> "land"
      [] step = "land" -> "save"
      [] step = "save" -> "finish"

\* the statements of Landing.create in their order: what follows which
after(step) ==
    CASE step = "begin" -> "save"       \* 113-142, then 144-147
      [] step = "save" -> "upload"      \* 150-151
      [] step = "upload" -> "land"      \* 153-162
      [] step = "land" -> "finish"      \* 163-168

\* --------------------------------------------------------------- utils
\* the characters of the revision ids the clients send
Chars == {"D", "A", "1", "2", " "}
Digits == {"1", "2"}

\* the strings of at most n characters
RECURSIVE Strings(_)
Strings(n) ==
    IF n = 0 THEN {<<>>}
    ELSE Strings(n - 1) \cup
         {Append(str, c) : str \in {t \in Strings(n - 1) : Len(t) = n - 1},
                           c \in Chars}

\* str.strip(): without the white space at either end
RECURSIVE strip(_)
strip(str) ==
    IF str = <<>> THEN str
    ELSE IF Head(str) = " " THEN strip(Tail(str))
    ELSE IF str[Len(str)] = " " THEN strip(SubSeq(str, 1, Len(str) - 1))
    ELSE str

\* str.replace('D', ''): every 'D' is taken out, wherever it is
replace_D(str) == SelectSeq(str, LAMBDA c : c # "D")

\* the number a string of digits is the decimal form of
RECURSIVE decimal(_)
decimal(str) ==
    IF str = <<>> THEN 0
    ELSE 10 * decimal(SubSeq(str, 1, Len(str) - 1))
         + (IF str[Len(str)] = "1" THEN 1 ELSE 2)

\* what a call returns, or the exception it raises
Returned(value) == [raised |-> "none", value |-> value]
Raises(exc) == [raised |-> exc, value |-> 0]

\* int(str): white space at the ends is allowed, then digits only, at
\* least one
int(str) ==
    LET digits == strip(str)
    IN  IF digits # <<>> /\ \A k \in 1..Len(digits) : digits[k] \in Digits
        THEN Returned(decimal(digits))
        ELSE Raises("ValueError")

\* an argument that is a str, and one that is an int
StrArg(str) == [is_str |-> TRUE, str |-> str, int |-> 0]
IntArg(n) == [is_str |-> FALSE, str |-> <<>>, int |-> n]

\* utils.revision_id_to_int
revision_id_to_int(revision_id) ==
    IF revision_id.is_str
    THEN int(replace_D(strip(revision_id.str)))
    ELSE Returned(revision_id.int)

\* no function called yet
NoCall == [fn |-> "none", arg |-> IntArg(0), result |-> Returned(0)]

\* ---- update, by the statements of one worker
\* the locals of a pingback: the landing as the session loaded it, the
\* landing as set_status has left it in memory, and how the request ended
NoPingback ==
    [pc |-> "idle", request_id |-> None, data |-> None, id |-> None,
     loaded |-> None, landing |-> None, status |-> 0]

\* db.session.commit() for a landing loaded before: the UPDATE sets the
\* columns whose value in memory is not the value loaded, the others keep
\* what the row holds by now
flush(row, loaded, landing) ==
    [column \in DOMAIN row |->
        IF landing[column] # loaded[column] THEN landing[column]
        ELSE row[column]]

\* ---- PhabricatorClient.call_conduit
\* what session.get(...).json() may come to: a fault ("RequestException"
\* from the transport, "JSONDecodeError" from the body) or the body of
\* Conduit, with error_code and error_info ("" for null) and the result
\* (null, or a list)
ConduitReplies ==
    [fault : {"none", "RequestException", "JSONDecodeError"},
     error_code : {"", "ERR-CONDUIT-CORE"},
     error_info : {"", "BOOM"},
     result : [null : {TRUE}, items : {<<>>}]
                \cup [null : {FALSE}, items : {<<>>, <<1>>, <<1, 2>>}]]

\* an exception of PhabricatorAPIException or its subclass, with the
\* error_code and error_info it carries ("" for None)
RaisesPhabricator(exc, error_code, error_info) ==
    [raised |-> exc, error_code |-> error_code, error_info |-> error_info]

\* mutant: the body is not looked at for an error
call_conduit_unchecked(reply) ==
    IF reply.fault # "none"
    THEN RaisesPhabricator("PhabricatorCommunicationException", "", "")
    ELSE Returned(reply.result)

\* call_conduit(method, **kwargs), given what the request comes to
call_conduit(reply) ==
    IF reply.fault # "none"
    THEN RaisesPhabricator("PhabricatorCommunicationException", "", "")
    ELSE IF reply.error_code # ""
    THEN RaisesPhabricator("PhabricatorAPIException", reply.error_code,
                           reply.error_info)
    ELSE Returned(reply.result)

\* ------------------------------------------------------------ the world
\* who talks to the container: the revisions and diffs the clients name,
\* the API-Key headers and the job ids of the pingbacks, the rows the
\* table takes, and whether Transplant may hand out a job id twice
Clients ==
    [revs |-> RevIds, diffs |-> DiffIds, headers |-> ApiKeyHeaders,
     jobs |-> JobIds, rows |-> MaxLandings, reuse |-> FALSE,
     deps |-> [r \in RevIds |-> <<>>]]

\* few clients, all of one revision, and room for their landings
FewClients ==
    [revs |-> {1}, diffs |-> {1}, headers |-> {SomeApiKey, WrongApiKey},
     jobs |-> 1..(2 * MaxRows), rows |-> MaxRows, reuse |-> TRUE,
     deps |-> [r \in {1} |-> <<>>]]

\* the same, with a Transplant that numbers its jobs and pingbacks that
\* have the key
StepClients ==
    [FewClients EXCEPT !.headers = {SomeApiKey}, !.reuse = FALSE]

\* clients of one revision that name its diff 1 or diff 2, which is a
\* diff of another revision (differential.querydiffs: revisionID)
ReviewClients ==
    [revs |-> {1}, diffs |-> {1, 2}, headers |-> {SomeApiKey},
     jobs |-> JobIds, rows |-> MaxLandings, reuse |-> FALSE,
     deps |-> [r \in {1} |-> <<>>],
     diff_revision |-> [d \in {1, 2} |-> d]]

\* stacked revisions: what 'phabricator:depends-on' of every revision is
StackRevs == 1..4

\* D4 -> D3 -> D2 -> D1
Chain == [r \in StackRevs |-> IF r = 1 THEN <<>> ELSE <<r - 1>>]

\* D4 -> D3 -> {D1, D2}
DeepFork ==
    [r \in StackRevs |->
        CASE r = 4 -> <<3>>
          [] r = 3 -> <<1, 2>>
          [] OTHER -> <<>>]

\* D4 -> {D3, D2}, D3 -> D1
TopFork ==
    [r \in StackRevs |->
        CASE r = 4 -> <<3, 2>>
          [] r = 3 -> <<1>>
          [] OTHER -> <<>>]

Stacks == {Chain, DeepFork, TopFork}

\* D4 -> {D3, D2}, D3 -> D1, D2 -> D1
Diamond ==
    [r \in StackRevs |->
        CASE r = 4 -> <<3, 2>>
          [] r = 1 -> <<>>
          [] OTHER -> <<1>>]

\* D4 -> D3 -> D2 -> D1 -> D2
Loop == [r \in StackRevs |-> IF r = 1 THEN <<2>> ELSE <<r - 1>>]

\* D4 -> {D3, D2}, D2 -> D1 -> D2
LateLoop ==
    [r \in StackRevs |->
        CASE r = 4 -> <<3, 2>>
          [] r = 3 -> <<>>
          [] r = 2 -> <<1>>
          [] r = 1 -> <<2>>]

\* D3 -> D3, D4 -> D2 -> D1
SelfLoop ==
    [r \in StackRevs |->
        CASE r = 4 -> <<2>>
          [] r = 3 -> <<3>>
          [] r = 2 -> <<1>>
          [] r = 1 -> <<>>]

\* what 'phabricator:depends-on' may hold, circles included: the client
\* takes the phids as Phabricator gives them
WalkGraphs == Stacks \cup {Diamond, Loop, LateLoop, SelfLoop}

\* the statuses of the revisions walked: all closed, or one of them open
WalkStatuses ==
    {[r \in StackRevs |-> IF r = open THEN NEEDS_REVIEW ELSE CLOSED] :
        open \in {None} \cup StackRevs}

\* the statuses of the revisions of a stack: each open or closed
StackStatuses == [StackRevs -> {NEEDS_REVIEW, CLOSED}]

\* the statuses a helper is called with: each revision approved, closed
\* or abandoned, or one revision in another open status among closed ones
AnyStatuses ==
    [StackRevs -> {APPROVED, CLOSED, ABANDONED}]
        \cup {[r \in StackRevs |-> IF r = open THEN status ELSE CLOSED] :
                open \in StackRevs,
                status \in {NEEDS_REVIEW, NEEDS_REVISION, CHANGES_PLANNED}}

\* the clients of stacked revisions
StackedClients(deps, status) ==
    [revs |-> StackRevs, diffs |-> {1}, headers |-> {SomeApiKey},
     jobs |-> JobIds, rows |-> MaxLandings, reuse |-> FALSE,
     deps |-> deps, status |-> status]

\* what trans.land may return to the next call
land_answers ==
    IF world.reuse THEN land_results_reused(transplant)
    ELSE land_results(transplant)

\* ---------------------------------------------------------------- Init
\* a deployment: the tables are empty
Deployed(pingback_enabled, clients) ==
    /\ world = clients
    /\ creating = [w \in Workers |-> Idle]
    /\ updating = [w \in Workers |-> NoPingback]
    /\ helper = NoCall
    /\ landings = <<>>
    /\ patches = {}
    /\ s3 = {}
    /\ transplant = {}
    /\ config = [PINGBACK_ENABLED |-> pingback_enabled,
                 TRANSPLANT_API_KEY |-> SomeApiKey]
    /\ request = NoRequest
    /\ response = NoResponse
    /\ before = Store

\* a container that takes the pingbacks (PINGBACK_ENABLED=y)
Init == Deployed("y", Clients)

\* a container that does not
InitPingbackDisabled == Deployed("n", Clients)

\* ------------------------------------------------------- POST /landings
\* post -> Landing.create(revision_id, diff_id, phab, override_diff_id)

\* the revision is not found
PostRevisionNotFound ==
    \E revision_id \in world.revs, diff_id \in world.diffs,
       override_diff_id \in {None} \cup world.diffs :
        /\ request' = PostRequest(revision_id, diff_id, override_diff_id,
                                  NoPhab, None)
        /\ before' = Store
        /\ response' = Raised("RevisionNotFoundException", 0, 0, 0)
        /\ UNCHANGED <<landings, patches, s3, transplant, config, world,
                       creating, helper,
                       updating>>

\* the diff validation raises
PostInvalidDiff ==
    \E revision_id \in world.revs, diff_id \in world.diffs,
       override_diff_id \in {None} \cup world.diffs,
       phab \in PhabAnswersFor(world.diffs) :
        LET exc == validate_diff(diff_id, phab.active_id, override_diff_id)
        IN  /\ phab.revision
            /\ ~phab.rawdiff            \* get_rawdiff is not called
            /\ exc # "ok"
            /\ request' = PostRequest(revision_id, diff_id, override_diff_id,
                                      phab, None)
            /\ before' = Store
            /\ response' = Raised(exc, diff_id, phab.active_id,
                                  IF exc = "OverrideDiffException"
                                  THEN override_diff_id ELSE 0)
            /\ UNCHANGED <<landings, patches, s3, transplant, config, world,
                       creating, helper,
                       updating>>

\* the landing is saved, then Patch.upload finds no raw diff
PostDiffNotFound ==
    \E revision_id \in world.revs, diff_id \in world.diffs,
       override_diff_id \in {None} \cup world.diffs,
       phab \in PhabAnswersFor(world.diffs) :
        LET id == Len(landings) + 1
        IN  /\ Len(landings) < world.rows
            /\ phab.revision
            /\ validate_diff(diff_id, phab.active_id, override_diff_id) = "ok"
            /\ ~phab.rawdiff
            /\ landings' = save(landings,
                    Landing(id, revision_id, diff_id, phab.active_id))
            /\ request' = PostRequest(revision_id, diff_id, override_diff_id,
                                      phab, None)
            /\ before' = Store
            /\ response' = Raised("DiffNotFoundException", diff_id, 0, 0)
            /\ UNCHANGED <<patches, s3, transplant, config, world, creating, helper,
                       updating>>

\* the landing is saved, the patch uploaded and Transplant called
PostLand ==
    \E revision_id \in world.revs, diff_id \in world.diffs,
       override_diff_id \in {None} \cup world.diffs,
       phab \in PhabAnswersFor(world.diffs),
       land \in land_answers :
        LET id == Len(landings) + 1
            landing == Landing(id, revision_id, diff_id, phab.active_id)
            url == patch_url(id, revision_id, diff_id)
        IN  /\ Len(landings) < world.rows
            /\ phab.revision
            /\ validate_diff(diff_id, phab.active_id, override_diff_id) = "ok"
            /\ phab.rawdiff
            /\ s3' = s3 \cup {url}
            /\ transplant' = transplant \cup
                    {[patch_urls |-> <<url>>, request_id |-> land]}
            /\ request' = PostRequest(revision_id, diff_id, override_diff_id,
                                      phab, land)
            /\ before' = Store
            /\ IF land = None       \* `if not request_id`
               THEN /\ landings' = save(landings, landing)
                    /\ response' = Raised("LandingNotCreatedException", 0, 0, 0)
               ELSE IF request_id_taken(landings, land)
               THEN \* the second landing.save() fails, the row stays as
                    \* the first one committed it; post does not catch it
                    /\ landings' = save(landings, landing)
                    /\ response' = [NoResponse EXCEPT !.status = 500,
                                                      !.exc = "IntegrityError"]
               ELSE /\ landings' = save(save(landings, landing),
                                         job_started(landing, land))
                    /\ response' = [NoResponse EXCEPT !.status = post_status("ok"),
                                                      !.exc = "ok", !.id = id]
            /\ UNCHANGED <<patches, config, world, creating, helper,
                       updating>>

\* a call to Phabricator raises: Landing.create and post let the
\* exception pass, the request ends with an internal server error.  phab
\* has the answers got before the fault.
PostPhabricatorError ==
    \E revision_id \in world.revs, diff_id \in world.diffs,
       override_diff_id \in {None} \cup world.diffs,
       phab \in PhabAnswersFor(world.diffs), fault \in PhabFaults :
        LET id == Len(landings) + 1
            landing == Landing(id, revision_id, diff_id, phab.active_id)
            url == patch_url(id, revision_id, diff_id)
            valid == validate_diff(diff_id, phab.active_id,
                                   override_diff_id) = "ok"
        IN  /\ CASE fault = "get_revision" -> phab = NoPhab
                 [] fault = "diff_phid_to_id" ->
                        phab = [NoPhab EXCEPT !.revision = TRUE]
                 [] fault = "get_rawdiff" ->
                        phab.revision /\ valid /\ ~phab.rawdiff
                 [] fault = "get_revision_repo" ->
                        phab.revision /\ valid /\ phab.rawdiff
            /\ request' = [PostRequest(revision_id, diff_id,
                                       override_diff_id, phab, None)
                                EXCEPT !.fault = fault]
            /\ before' = Store
            /\ response' = [NoResponse EXCEPT
                                !.status = 500,
                                !.exc = "PhabricatorAPIException"]
            /\ IF fault \in {"get_revision", "diff_phid_to_id"}
               THEN UNCHANGED <<landings, s3>>
               ELSE /\ Len(landings) < world.rows
                    /\ landings' = save(landings, landing)     \* line 147
                    /\ s3' = IF fault = "get_revision_repo"
                             THEN s3 \cup {url} ELSE s3
            /\ UNCHANGED <<patches, transplant, config, world, creating, helper,
                       updating>>

post ==
    \/ PostRevisionNotFound
    \/ PostInvalidDiff
    \/ PostDiffNotFound
    \/ PostLand

\* ------------------------------------------------ POST /landings/update
update ==
    \E api_key \in world.headers, request_id \in world.jobs,
       data \in Payloads :
        LET found == filter_by_request_id(landings, request_id)
            landed == data.landed
            error_msg == data.error_msg
            result == data.result
        IN  /\ request' = UpdateRequest(api_key, request_id, landed,
                                        error_msg, result)
            /\ before' = Store
            /\ IF pingback_denied(config, api_key)
               THEN /\ response' = [NoResponse EXCEPT !.status = 403]
                    /\ UNCHANGED landings
               ELSE IF found = {}       \* .one() raises NoResultFound
               THEN /\ response' = [NoResponse EXCEPT !.status = 404]
                    /\ UNCHANGED landings
               ELSE LET i == CHOOSE j \in found : TRUE
                    IN  /\ landings' = save(landings,
                                set_status(landings[i], landed,
                                           get_or_empty(error_msg),
                                           get_or_empty(result)))
                        /\ response' = [NoResponse EXCEPT !.status = 200]
            /\ UNCHANGED <<patches, s3, transplant, config, world, creating, helper,
                       updating>>

\* GET /landings?status=...: no status given, or one to filter by
StatusFilters == {Absent, "landed"}

\* --------------------------------------------- GET /landings/{landing_id}
\* what get_revision answers to a read: the revision, or nothing when it
\* does not exist or the caller may not see it
Visible == [NoPhab EXCEPT !.revision = TRUE]

\* mutant: a landing whose revision the caller may not see is refused
landing_or_problem_refused(rows, landing_id, phab) ==
    IF landing_id \in 1..Len(rows)
    THEN IF phab.revision
         THEN [NoResponse EXCEPT !.status = 200,
                                 !.body = {serialize(rows[landing_id])}]
         ELSE [NoResponse EXCEPT !.status = 403]
    ELSE [NoResponse EXCEPT !.status = 404]

\* what get answers: the landing, if it is there and Phabricator shows its
\* revision to the caller, else the problem 404 'Landing not found'
landing_or_problem(rows, landing_id, phab) ==
    IF landing_id \in 1..Len(rows) /\ phab.revision
    THEN [NoResponse EXCEPT !.status = 200,
                            !.body = {serialize(rows[landing_id])}]
    ELSE [NoResponse EXCEPT !.status = 404]

get ==
    \E landing_id \in 1..(world.rows + 1), phab \in {NoPhab, Visible} :
        /\ landing_id \notin Ids => phab = NoPhab   \* Phabricator not asked
        /\ request' = GetRequest(landing_id, phab)
        /\ before' = Store
        /\ response' = landing_or_problem(landings, landing_id, phab)
        /\ UNCHANGED <<landings, patches, s3, transplant, config, world,
                       creating, helper,
                       updating>>

\* ------------------------------------------------------- GET /landings
\* the query may carry status=...; get_list has the parameter revision_id
\* only, a status does not reach it
get_list ==
    \E revision_id \in world.revs, phab \in {NoPhab, Visible},
       status \in StatusFilters :
        /\ request' = [GetListRequest(revision_id, phab)
                            EXCEPT !.status = status]
        /\ before' = Store
        /\ IF phab.revision
           THEN response' = [NoResponse EXCEPT
                    !.status = 200,
                    !.body = {serialize(landings[i]) :
                        i \in filter_by_revision_id(landings, revision_id)}]
           ELSE response' = [NoResponse EXCEPT !.status = 404]
        /\ UNCHANGED <<landings, patches, s3, transplant, config, world,
                       creating, helper,
                       updating>>

\* ------------------------------------- Landing.create, step by step
\* The same method, one action for each of its calls to Phabricator, the
\* database, S3 and Transplant, for the workers that run it side by side.

\* the calls that have not saved their landing yet
unsaved == {w \in Workers : creating[w].pc \in {"save", "upload", "land"}
                              /\ creating[w].landing.id = None}

\* the call of worker w has ended, with exc
ended(w, exc) == [creating EXCEPT ![w] = [Idle EXCEPT !.exc = exc]]

\* the call of worker w goes on after step, with its locals as in call
goes_on(w, call, step) ==
    [creating EXCEPT ![w] = [call EXCEPT !.pc = after(step)]]

\* 113-142: get_revision, diff_phid_to_id, the validation, and 144-146:
\* the Landing object, which has no id yet
create_begin(w) ==
    \E revision_id \in world.revs, diff_id \in world.diffs,
       override_diff_id \in {None} \cup world.diffs,
       phab \in PhabAnswersFor(world.diffs) :
        LET exc == validate_diff(diff_id, phab.active_id, override_diff_id)
        IN  /\ creating[w].pc = "idle"
            /\ Len(landings) + Cardinality(unsaved) < world.rows
            /\ ~phab.revision => ~phab.rawdiff /\ phab.active_id = None
            /\ creating' =
                IF ~phab.revision
                THEN ended(w, "RevisionNotFoundException")
                ELSE IF exc # "ok" THEN ended(w, exc)
                ELSE goes_on(w,
                        [Idle EXCEPT
                            !.revision_id = revision_id,
                            !.diff_id = diff_id,
                            !.phab = phab,
                            !.landing = Landing(None, revision_id, diff_id,
                                                phab.active_id)],
                        "begin")
            /\ before' = Store
            /\ UNCHANGED <<landings, patches, s3, transplant, config, world,
                           request, response, helper,
                       updating>>

\* 147: landing.save(), the database gives the landing its id
create_save(w) ==
    LET call == creating[w]
        landing == [call.landing EXCEPT !.id = Len(landings) + 1]
    IN  /\ call.pc = "save"
        /\ landings' = save(landings, landing)
        /\ creating' = goes_on(w, [call EXCEPT !.landing = landing], "save")
        /\ before' = Store
        /\ UNCHANGED <<patches, s3, transplant, config, world, request,
                       response, helper,
                       updating>>

\* 150-151: Patch(landing.id, revision, diff_id).upload(phab)
create_upload(w) ==
    LET call == creating[w]
        url == patch_url(call.landing.id, call.revision_id, call.diff_id)
    IN  /\ call.pc = "upload"
        /\ IF call.phab.rawdiff
           THEN /\ s3' = s3 \cup {url}
                /\ creating' = goes_on(w, [call EXCEPT !.s3_url = url],
                                       "upload")
           ELSE /\ creating' = ended(w, "DiffNotFoundException")
                /\ UNCHANGED s3
        /\ before' = Store
        /\ UNCHANGED <<landings, patches, transplant, config, world, request,
                       response, helper,
                       updating>>

\* 153-162: trans.land(..., [patch.s3_url], ...)
create_land(w) ==
    \E land \in land_answers :
        LET call == creating[w]
        IN  /\ call.pc = "land"
            /\ transplant' = transplant \cup
                    {[patch_urls |-> <<call.s3_url>>, request_id |-> land]}
            /\ creating' = goes_on(w, [call EXCEPT !.request_id = land,
                                                   !.called = TRUE], "land")
            /\ before' = Store
            /\ UNCHANGED <<landings, patches, s3, config, world, request,
                           response, helper,
                       updating>>

\* 163-168: `if not request_id: raise`, else the job id and the status of
\* the landing are set and the landing is saved
create_finish(w) ==
    LET call == creating[w]
    IN  /\ call.pc = "finish"
        /\ IF call.request_id = None
           THEN /\ creating' = ended(w, "LandingNotCreatedException")
                /\ UNCHANGED landings
           ELSE IF request_id_taken(landings, call.request_id)
           THEN /\ creating' = ended(w, "IntegrityError")
                /\ UNCHANGED landings
           ELSE /\ creating' = ended(w, "ok")
                /\ landings' = save(landings,
                                    job_started(call.landing, call.request_id))
        /\ before' = Store
        /\ UNCHANGED <<patches, s3, transplant, config, world, request,
                       response, helper,
                       updating>>

create(w) ==
    \/ create_begin(w)
    \/ create_save(w)
    \/ create_upload(w)
    \/ create_land(w)
    \/ create_finish(w)

\* ---------------------------------------------- update, step by step
\* 261-303: the two checks, the query for the landing and set_status on
\* the object loaded; nothing is written yet
update_load(w) ==
    \E api_key \in world.headers, request_id \in world.jobs,
       data \in Payloads :
        LET found == filter_by_request_id(landings, request_id)
            i == CHOOSE j \in found : TRUE
            call == [NoPingback EXCEPT !.request_id = request_id,
                                       !.data = data]
        IN  /\ updating[w].pc # "loaded"
            /\ updating' = [updating EXCEPT ![w] =
                    IF pingback_denied(config, api_key)
                    THEN [call EXCEPT !.pc = "ended", !.status = 403]
                    ELSE IF found = {}
                    THEN [call EXCEPT !.pc = "ended", !.status = 404]
                    ELSE [call EXCEPT
                            !.pc = "loaded",
                            !.id = i,
                            !.loaded = landings[i],
                            !.landing =
                                set_status(landings[i], data.landed,
                                           get_or_empty(data.error_msg),
                                           get_or_empty(data.result))]]
            /\ UNCHANGED <<landings, patches, s3, transplant, config, world,
                           creating, helper, request, response, before>>

\* 304-305: landing.save() commits, and the answer is 200
update_save(w) ==
    LET call == updating[w]
    IN  /\ call.pc = "loaded"
        /\ landings' = save(landings,
                            flush(landings[call.id], call.loaded,
                                  call.landing))
        /\ updating' = [updating EXCEPT ![w] =
                            [NoPingback EXCEPT !.pc = "ended",
                                               !.status = 200,
                                               !.request_id = call.request_id,
                                               !.data = call.data,
                                               !.id = call.id]]
        /\ UNCHANGED <<patches, s3, transplant, config, world, creating,
                       helper, request, response, before>>

Next == post \/ update

\* with a Phabricator that may fail
NextReview == post \/ PostPhabricatorError \/ update

\* ------------------------------------------------- the helper functions
\* revision_id_to_int(revision_id) for what a client may send
call_revision_id_to_int ==
    \E revision_id \in {StrArg(str) : str \in Strings(MaxIdLen)}
                        \cup {IntArg(n) : n \in {1, 12}} :
        /\ helper' = [fn |-> "revision_id_to_int", arg |-> revision_id,
                      result |-> revision_id_to_int(revision_id)]
        /\ UNCHANGED <<landings, patches, s3, transplant, config, world,
                       creating, request, response, before,
                       updating>>

\* phab.get_first_open_parent_revision(revision) for the revisions
\* Phabricator may have
call_get_first_open_parent_revision ==
    \E deps \in Stacks, status \in AnyStatuses, revision \in StackRevs :
        /\ helper' = [fn |-> "get_first_open_parent_revision",
                      arg |-> [deps |-> deps, status |-> status,
                               revision |-> revision],
                      result |-> Returned(
                          get_first_open_parent_revision(deps, status,
                                                         revision))]
        /\ UNCHANGED <<landings, patches, s3, transplant, config, world,
                       creating, request, response, before,
                       updating>>

\* a walk of the dependencies of a revision begins: the generator is made
\* and its first next() has not been asked for
walk_begin ==
    \E deps \in WalkGraphs, status \in WalkStatuses, revision \in StackRevs,
       consumer \in {"all", "first_open"} :
        /\ helper.fn = "dependency_walk" => helper.pc # "running"
        /\ helper' = Walk(deps, status, revision, consumer)
        /\ UNCHANGED <<landings, patches, s3, transplant, config, world,
                       creating, request, response, before,
                       updating>>

\* the consumer asks the generator for the next revision
walk_next ==
    /\ helper.fn = "dependency_walk"
    /\ helper.pc = "running"
    /\ helper' = next_revision(helper)
    /\ UNCHANGED <<landings, patches, s3, transplant, config, world,
                   creating, request, response, before,
                       updating>>

NextWalk == walk_begin \/ walk_next

\* phab.call_conduit(method, ...) for what Phabricator may answer
call_call_conduit ==
    \E reply \in ConduitReplies :
        /\ helper' = [fn |-> "call_conduit", arg |-> reply,
                      result |-> call_conduit(reply)]
        /\ UNCHANGED <<landings, patches, s3, transplant, config, world,
                       creating, request, response, before,
                       updating>>

NextHelpers ==
    \/ call_revision_id_to_int
    \/ call_get_first_open_parent_revision
    \/ call_call_conduit

\* the creates step by step, among the pingbacks
NextSteps == (\E w \in Workers : create(w)) \/ update

\* the creates, and the pingbacks step by step
NextPingbacks ==
    post \/ (\E w \in Workers : update_load(w) \/ update_save(w))

\* with the read endpoints
NextApi == post \/ update \/ get \/ get_list

Spec == Init /\ [][Next]_vars

SpecPingbackDisabled == InitPingbackDisabled /\ [][Next]_vars

\* few clients, two landings, reads, and a Transplant that may repeat a
\* job id
InitFewClients == Deployed("y", FewClients)

SpecFewClients == InitFewClients /\ [][NextApi]_vars

\* two workers in Landing.create at a time
InitSteps == Deployed("y", StepClients)

SpecSteps == InitSteps /\ [][NextSteps]_vars

\* one revision, a diff of another one, and a Phabricator that may fail
InitReview == Deployed("y", ReviewClients)

SpecReview == InitReview /\ [][NextReview]_vars

\* the functions without state, called on their own
SpecHelpers == Init /\ [][NextHelpers]_vars

\* the walks of the dependencies, next() by next(); a walk begun is gone on
\* with: the consumer loops over the generator
SpecWalk == Init /\ [][NextWalk]_vars /\ WF_vars(walk_next)

\* pingbacks handled by two workers at a time
PingbackClients ==
    [StepClients EXCEPT !.jobs = JobIds, !.rows = MaxLandings]

InitPingbacks == Deployed("y", PingbackClients)

SpecPingbacks == InitPingbacks /\ [][NextPingbacks]_vars

\* revisions that depend on each other
InitStacked ==
    \E deps \in Stacks, status \in StackStatuses :
        Deployed("y", StackedClients(deps, status))

SpecStacked == InitStacked /\ [][Next]_vars

\* ===================================================================
\* Properties
\* ===================================================================

\* what a request is, said without the operators of the handlers
IsPost(req) == req.op = "post"
IsUpdate(req) == req.op = "update"

\* Landing.create got past the diff validation: the landing was saved
Validated ==
    /\ IsPost(request)
    /\ response.exc \in {"ok", "DiffNotFoundException",
                         "LandingNotCreatedException"}

\* the pingback passes both checks of update
Authenticated(req) ==
    /\ config.PINGBACK_ENABLED = "y"
    /\ req.api_key = config.TRANSPLANT_API_KEY

\* the rows a pingback names
Named(req) == {i \in Ids : landings[i].request_id = req.request_id}

\* ---------------------------------------------------------------- C1
\* C1: a create for an existing revision with its active diff, without an
\* override, the raw diff available and a job id returned by Transplant,
\* succeeds (202 with the id of the landing); the stored landing is
\* 'submitted', has the returned job id as request_id and has
\* diff_id = active_diff_id = the requested diff.
ActiveDiffLanded ==
    /\ IsPost(request)
    /\ request.phab.revision
    /\ request.override_diff_id = None
    /\ request.diff_id = request.phab.active_id
    /\ request.phab.rawdiff
    /\ request.land # None

C1_ActiveDiffCreates ==
    ActiveDiffLanded =>
        /\ response.status = 202
        /\ response.id \in Ids
        /\ landings[response.id].id = response.id
        /\ landings[response.id].status = "submitted"
        /\ landings[response.id].request_id = request.land
        /\ landings[response.id].revision_id = request.revision_id
        /\ landings[response.id].diff_id = request.diff_id
        /\ landings[response.id].active_diff_id = request.diff_id

C1_Witness ==
    /\ ActiveDiffLanded
    /\ response.status = 202
    /\ landings[response.id].request_id # response.id

\* ---------------------------------------------------------------- C2
\* nothing was saved, uploaded or sent to Transplant by the last request
NothingStored == Store = before

\* C2: a create without override for an existing revision whose active
\* diff is not the requested one fails with InactiveDiffException(d, a),
\* answered 409; no landing is saved, no patch uploaded and Transplant is
\* not called.
InactiveRequested ==
    /\ IsPost(request)
    /\ request.phab.revision
    /\ request.override_diff_id = None
    /\ request.diff_id # request.phab.active_id

WrongOverride ==
    /\ IsPost(request)
    /\ request.phab.revision
    /\ request.override_diff_id # None
    /\ request.override_diff_id # request.phab.active_id

C3_OverrideMismatchRejected ==
    WrongOverride =>
        /\ response.exc = "OverrideDiffException"
        /\ response.status = 409
        /\ response.diff_id = request.diff_id
        /\ response.active_diff_id = request.phab.active_id
        /\ response.override_diff_id = request.override_diff_id
        /\ NothingStored

\* the requested diff is the active one, and still the override is refused
C3_Witness ==
    /\ WrongOverride
    /\ request.diff_id = request.phab.active_id
    /\ response.exc = "OverrideDiffException"

\* ---------------------------------------------------------------- C4
\* C4 as stated: a create with an override passes the diff validation only
\* when the override is the active diff and the diff to land is not.
C4_OverrideOnlyForStaleDiff ==
    (IsPost(request) /\ request.override_diff_id # None /\ Validated) =>
        /\ request.override_diff_id = request.phab.active_id
        /\ request.diff_id # request.phab.active_id

\* C4 amended: a create with an override passes the diff validation if and
\* only if the override is the active diff of the revision (found), be the
\* diff to land the active one or not.
C4_OverrideIffActive ==
    (IsPost(request) /\ request.override_diff_id # None) =>
        (Validated <=>
            /\ request.phab.revision
            /\ request.override_diff_id = request.phab.active_id)

\* an override of the active diff that lands the active diff itself
C4_Witness ==
    /\ IsPost(request)
    /\ request.override_diff_id # None
    /\ request.override_diff_id = request.phab.active_id
    /\ request.diff_id = request.phab.active_id
    /\ response.status = 202

\* ---------------------------------------------------------------- C5
OverrideLanded ==
    /\ IsPost(request)
    /\ request.override_diff_id # None
    /\ request.diff_id # request.phab.active_id
    /\ response.status = 202

OverrideRecorded ==
    OverrideLanded =>
        /\ landings[response.id].diff_id = request.diff_id
        /\ landings[response.id].active_diff_id = request.phab.active_id
        /\ landings[response.id].active_diff_id = request.override_diff_id

SubmissionFails ==
    /\ IsPost(request)
    /\ request.phab.revision
    /\ request.phab.rawdiff
    /\ request.land = None

C6_FailedSubmissionLeavesNoLanding ==
    SubmissionFails =>
        /\ response.status = 502
        /\ landings = before.landings

\* ---------------------------------------------------------------- C7
\* C7: an authenticated pingback for the job of a 'submitted' landing is
\* answered 200 and makes the landing 'landed' when landed is true and
\* 'failed' when it is false, with error and result those of the payload,
\* '' for a field the payload does not have.
C7_PingbackSetsStatus ==
    (IsUpdate(request) /\ Authenticated(request)) =>
        \A i \in Named(request) :
            before.landings[i].status = "submitted" =>
                /\ response.status = 200
                /\ landings[i].status =
                        IF request.landed THEN "landed" ELSE "failed"
                /\ landings[i].error =
                        IF request.error_msg = Absent THEN ""
                        ELSE request.error_msg
                /\ landings[i].result =
                        IF request.result = Absent THEN ""
                        ELSE request.result

C7_Witness ==
    /\ IsUpdate(request)
    /\ request.landed
    /\ request.error_msg = Absent
    /\ response.status = 200
    /\ \E i \in Named(request) :
        /\ before.landings[i].status = "submitted"
        /\ landings[i].status = "landed"
        /\ landings[i].result = "sha123"
        /\ landings[i].error = ""

C10_DisabledForbidden ==
    (IsUpdate(request) /\ config.PINGBACK_ENABLED # "y") =>
        /\ response.status = 403
        /\ landings = before.landings

C10_Witness ==
    /\ IsUpdate(request)
    /\ config.PINGBACK_ENABLED # "y"
    /\ request.api_key = config.TRANSPLANT_API_KEY
    /\ Named(request) # {}
    /\ response.status = 403

\* --------------------------------------------------------------- C11
\* the landings that were stored when the last request came in
Old == 1..Len(before.landings)

\* C11 as the specification has it: the status of a landing changes only
\* from 'submitted' to 'landed' or to 'failed'; a landing that is 'landed'
\* or 'failed' keeps its status whatever request comes.
C11_TerminalStatusKept ==
    \A i \in Old \cap Ids :
        landings[i].status # before.landings[i].status =>
            /\ before.landings[i].status = "submitted"
            /\ landings[i].status \in {"landed", "failed"}

\* C11: the status of a landing changes only to 'landed' or to 'failed',
\* and only from 'submitted', 'landed' or 'failed': no request puts a
\* landing back to 'submitted' or to 'aborted' and an aborted landing
\* stays aborted, but a pingback may turn 'landed' into 'failed' and back.
C11_StatusNeverGoesBack ==
    \A i \in Old \cap Ids :
        landings[i].status # before.landings[i].status =>
            /\ before.landings[i].status \in {"submitted", "landed", "failed"}
            /\ landings[i].status \in {"landed", "failed"}

\* a landed landing has become a failed one
C11_Witness ==
    /\ IsUpdate(request)
    /\ \E i \in Old \cap Ids :
        /\ before.landings[i].status = "landed"
        /\ landings[i].status = "failed"

\* --------------------------------------------------------------- C12
\* the pingback names a landing that an earlier pingback has made
\* 'landed' or 'failed'
SecondPingback ==
    /\ IsUpdate(request)
    /\ Authenticated(request)
    /\ \E i \in Named(request) :
        before.landings[i].status \in {"landed", "failed"}

\* C12: an authenticated pingback for the job of a landing that is
\* already 'landed' or 'failed' is answered 200, and the status, the error
\* and the result of the landing become those of this payload.
C12_SecondPingbackOverwrites ==
    SecondPingback =>
        /\ response.status = 200
        /\ \A i \in Named(request) :
            /\ landings[i].status =
                    IF request.landed THEN "landed" ELSE "failed"
            /\ landings[i].error =
                    IF request.error_msg = Absent THEN ""
                    ELSE request.error_msg
            /\ landings[i].result =
                    IF request.result = Absent THEN ""
                    ELSE request.result

\* a failed landing with an error has become a landed one without
C12_Witness ==
    /\ SecondPingback
    /\ request.landed
    /\ \E i \in Named(request) :
        /\ before.landings[i].status = "failed"
        /\ before.landings[i].error = "patch does not apply"
        /\ landings[i].status = "landed"
        /\ landings[i].error = ""
        /\ landings[i].result = "sha123"

\* --------------------------------------------------------------- C13
\* C13: no two landings in the store have the same job id (request_id)
\* other than None, also when Transplant answers a create with the id of
\* an earlier job; and the job id of a landing, once it is not None, is
\* the same after every create and every pingback.
C13_JobIdUniqueAndKept ==
    /\ \A i \in Ids : \A j \in Ids \ {i} :
            landings[i].request_id # None =>
                landings[i].request_id # landings[j].request_id
    /\ \A i \in Old \cap Ids :
            before.landings[i].request_id # None =>
                landings[i].request_id = before.landings[i].request_id

\* Transplant has answered the second create with the job id of the first
C13_Witness ==
    /\ IsPost(request)
    /\ request.land # None
    /\ \E i \in Old \cap Ids : before.landings[i].request_id = request.land
    /\ Len(landings) = Len(before.landings) + 1

\* --------------------------------------------------------------- C14
\* C14: a landing that is stored with a job id is still stored, under its
\* id, after every create and every pingback.
C14_LandingWithJobStays ==
    \A i \in Old :
        before.landings[i].request_id # None =>
            /\ i \in Ids
            /\ landings[i].id = before.landings[i].id

\* a later create of the same revision has failed at Transplant
C14_Witness ==
    /\ IsPost(request)
    /\ response.exc = "LandingNotCreatedException"
    /\ \E i \in Old \cap Ids :
        /\ before.landings[i].request_id # None
        /\ before.landings[i].revision_id = request.revision_id
        /\ landings[i].status = "landed"

\* --------------------------------------------------------------- C15
\* C15: every landing in the body of a 200 answer of get or get_list has
\* status 'submitted', 'landed' or 'failed'.
C15_ReadsShowNoAbortedLanding ==
    (request.op \in {"get", "get_list"} /\ response.status = 200) =>
        \A landing \in response.body :
            landing.status \in {"submitted", "landed", "failed"}

StackOf(revision) ==
    <<revision>> \o get_dependency_tree(world.deps, revision, TRUE)

\* one revision of the stack depends on two or more
Forked(revision) ==
    \E k \in 1..Len(StackOf(revision)) :
        Len(world.deps[StackOf(revision)[k]]) >= 2

\* a create whose revision is found and whose diff passes the validation
ValidRequested ==
    /\ IsPost(request)
    /\ request.phab.revision
    /\ IF request.override_diff_id # None
       THEN request.override_diff_id = request.phab.active_id
       ELSE request.diff_id = request.phab.active_id

\* C17: a create for a revision with a fork anywhere in its stack of
\* dependencies, the raw diff being there, fails with
\* MultipleParentsDetected and sends nothing to Transplant.
C17_ForkedStackRejected ==
    (ValidRequested /\ request.phab.rawdiff
        /\ Forked(request.revision_id)) =>
        /\ response.exc = "MultipleParentsDetected"
        /\ transplant = before.transplant

\* --------------------------------------------------------------- C18
\* C18: a successful create for a revision with a linear stack of N
\* revisions sends one land call with N patch urls, the oldest ancestor
\* first, each of its own revision.
C18_OnePatchPerStackRevision ==
    (IsPost(request) /\ response.exc = "ok"
        /\ ~Forked(request.revision_id)) =>
        LET stack == StackOf(request.revision_id)
            N == Len(stack)
        IN  /\ Cardinality(transplant \ before.transplant) = 1
            /\ \A call \in transplant \ before.transplant :
                /\ Len(call.patch_urls) = N
                /\ \A k \in 1..Len(call.patch_urls) :
                        k <= N => call.patch_urls[k][2] = stack[N - k + 1]

\* --------------------------------------------------------------- C19
\* C19: a Landing.create call that has called Transplant has saved its
\* landing before: the landing has its id and is in the store under it;
\* and the patch of every land call is the patch of a stored landing.
C19_SavedBeforeTransplant ==
    /\ \A w \in Workers :
            creating[w].called =>
                /\ creating[w].landing.id # None
                /\ creating[w].landing.id \in Ids
                /\ landings[creating[w].landing.id].id =
                        creating[w].landing.id
    /\ \A call \in transplant :
            \A k \in 1..Len(call.patch_urls) :
                call.patch_urls[k][1] \in Ids

\* Transplant has just been called, for a landing that is stored without
\* a job id
C19_Witness ==
    \E w \in Workers :
        /\ creating[w].called
        /\ creating[w].pc = "finish"
        /\ creating[w].request_id # None
        /\ creating[w].landing.id \in Ids
        /\ landings[creating[w].landing.id].request_id = None
        /\ landings[creating[w].landing.id].status = "aborted"

\* --------------------------------------------------------------- C20
\* C20: after a successful create the table "patches" has a Patch of the
\* new landing, with the diff landed and the url of the uploaded patch.
C20_PatchRowSaved ==
    (IsPost(request) /\ response.exc = "ok") =>
        \E patch \in patches :
            /\ patch.landing_id = response.id
            /\ patch.diff_id = request.diff_id
            /\ patch.s3_url \in s3

\* --------------------------------------------------------------- C21
\* the last Landing.create call of every worker has returned a landing
AllCreated == \A w \in Workers : creating[w].exc = "ok"

\* C21: when the Landing.create calls of two workers for the same
\* revision and diff have both returned, however their steps were
\* interleaved, the store has two landings of that revision and diff with
\* different ids and different job ids, and Transplant has got a land
\* call for each of the two jobs.
C21_ConcurrentCreatesNotDeduplicated ==
    AllCreated =>
        \E i \in Ids : \E j \in Ids \ {i} :
            /\ landings[i].id # landings[j].id
            /\ landings[i].revision_id = landings[j].revision_id
            /\ landings[i].diff_id = landings[j].diff_id
            /\ landings[i].request_id # None
            /\ landings[j].request_id # None
            /\ landings[i].request_id # landings[j].request_id
            /\ \E a \in transplant : \E b \in transplant \ {a} :
                /\ a.request_id = landings[i].request_id
                /\ b.request_id = landings[j].request_id
                /\ a.patch_urls # b.patch_urls

\* both have returned, and the landing saved first got its job last: the
\* two calls ran side by side
C21_Witness ==
    /\ AllCreated
    /\ \E i \in Ids : \E j \in Ids :
        /\ i < j
        /\ landings[j].request_id # None
        /\ landings[i].request_id > landings[j].request_id

\* --------------------------------------------------------------- C22
\* C22: a create during which a call to Phabricator raises, the fetch of
\* the raw diff included, is answered with a server side failure (5xx)
\* and leaves no landing in the store that was not there before.
C22_PhabricatorFaultLeavesNoLanding ==
    (IsPost(request) /\ request.fault # "none") =>
        /\ response.status >= 500
        /\ landings = before.landings

\* --------------------------------------------------------------- C23
\* the revision is there, and Phabricator has no raw diff for the diff
\* asked for, which is therefore not the active diff of the revision
NoSuchDiffRequested ==
    /\ IsPost(request)
    /\ request.fault = "none"
    /\ request.phab.revision
    /\ request.phab.active_id # None
    /\ request.phab.active_id # request.diff_id
    /\ ~request.phab.rawdiff

\* C23: a create for a revision that is there, with a diff id for which
\* Phabricator has no diff, fails with DiffNotFoundException and is
\* answered 404, whatever the diff id and the override.
C23_NoSuchDiffNotFound ==
    NoSuchDiffRequested =>
        /\ response.exc = "DiffNotFoundException"
        /\ response.status = 404

\* --------------------------------------------------------------- C24
\* the diff asked for is a diff of another revision and the override
\* makes the validation pass
ForeignDiffForced ==
    /\ IsPost(request)
    /\ request.fault = "none"
    /\ request.phab.revision
    /\ request.phab.rawdiff
    /\ world.diff_revision[request.diff_id] # request.revision_id
    /\ request.override_diff_id # None
    /\ request.override_diff_id = request.phab.active_id
    /\ world.diff_revision[request.phab.active_id] = request.revision_id

\* C24: a create with an override for a diff that is there but is a diff
\* of another revision fails with DiffNotInRevisionException, is answered
\* 400, and sends nothing to Transplant.
C24_ForeignDiffRejected ==
    ForeignDiffForced =>
        /\ response.exc = "DiffNotInRevisionException"
        /\ response.status = 400
        /\ transplant = before.transplant

\* --------------------------------------------------------------- C25
\* C25: a landing that is 'submitted' is 'submitted' after every request,
\* whether create, read or pingback, except after a pingback that has the
\* key, names the job of this landing and is answered 200.
C25_SubmittedUntilItsPingback ==
    \A i \in Old \cap Ids :
        (before.landings[i].status = "submitted"
            /\ landings[i].status # "submitted") =>
                /\ IsUpdate(request)
                /\ Authenticated(request)
                /\ request.request_id = before.landings[i].request_id
                /\ response.status = 200

\* a pingback for another job was applied and this landing is still
\* 'submitted'
C25_Witness ==
    /\ IsUpdate(request)
    /\ response.status = 200
    /\ \E i \in Old \cap Ids :
        /\ before.landings[i].status = "submitted"
        /\ landings[i].status = "submitted"
        /\ landings[i].request_id # request.request_id
        /\ \E j \in Named(request) : landings[j] # before.landings[j]

\* --------------------------------------------------------------- C26
\* C26: the list of landings answered for a revision, with or without a
\* status, has exactly the stored landings of that revision that have the
\* status asked for, if one is asked for.
C26_ListFiltersByRevisionAndStatus ==
    (request.op = "get_list" /\ response.status = 200) =>
        response.body =
            {serialize(landings[i]) :
                i \in {j \in Ids :
                    /\ landings[j].revision_id = request.revision_id
                    /\ request.status # Absent =>
                            landings[j].status = request.status}}

\* --------------------------------------------------------------- C27
\* the prefixed form: a 'D' and then digits, at least one
Prefixed(revision_id) ==
    /\ revision_id.is_str
    /\ Len(revision_id.str) >= 2
    /\ Head(revision_id.str) = "D"
    /\ \A k \in 2..Len(revision_id.str) : revision_id.str[k] \in Digits

\* C27: revision_id_to_int returns the number behind the 'D' for a str in
\* the prefixed form, and raises for every other argument: digits
\* without the 'D', a 'D' before something that is no number, another
\* prefix, an int.
C27_OnlyPrefixedIdsConverted ==
    helper.fn = "revision_id_to_int" =>
        IF Prefixed(helper.arg)
        THEN helper.result = Returned(decimal(Tail(helper.arg.str)))
        ELSE helper.result.raised # "none"

\* --------------------------------------------------------------- C28
\* C28: within one Landing.create call the steps that follow the diff
\* validation come in the order patch upload, persistence of the landing,
\* Transplant submission: a call whose landing is persisted has uploaded
\* its patch before, and a call that has submitted to Transplant has
\* uploaded its patch and persisted its landing before.
C28_UploadThenPersistThenSubmit ==
    \A w \in Workers :
        /\ creating[w].landing.id # None => creating[w].s3_url # <<>>
        /\ creating[w].called =>
                creating[w].s3_url # <<>> /\ creating[w].landing.id # None

\* --------------------------------------------------------------- C29
\* the revisions the revision depends on, directly or through others
OpenAncestors(revision) ==
    {StackOf(revision)[k] : k \in 2..Len(StackOf(revision))}
        \cap {r \in StackRevs : world.status[r] \in OPEN_STATUSES}

\* C29: a create for a revision with an open revision anywhere among the
\* revisions it depends on, the diff being valid and its raw diff there,
\* is answered 409 for OpenParentException and sends nothing to
\* Transplant.
C29_OpenParentRejected ==
    (ValidRequested /\ request.phab.rawdiff
        /\ OpenAncestors(request.revision_id) # {}) =>
        /\ response.status = 409
        /\ response.exc = "OpenParentException"
        /\ transplant = before.transplant

\* --------------------------------------------------------------- C30
\* the revisions reached from the revision in n steps of 'depends-on'
RECURSIVE Reached(_, _, _)
Reached(deps, from, n) ==
    IF n = 0 THEN {}
    ELSE LET parents == UNION {{deps[r][k] : k \in 1..Len(deps[r])} :
                                    r \in from}
         IN  parents \cup Reached(deps, parents, n - 1)

\* C30: get_first_open_parent_revision returns None if and only if no
\* revision the revision depends on, directly or through others, has an
\* open status; otherwise it returns an open one of them, before which
\* the walk of the dependency tree meets no open revision.
C30_FirstOpenParentOrNone ==
    helper.fn = "get_first_open_parent_revision" =>
        LET deps == helper.arg.deps
            status == helper.arg.status
            tree == get_dependency_tree(deps, helper.arg.revision, TRUE)
            ancestors == Reached(deps, {helper.arg.revision},
                                 Cardinality(StackRevs))
            open == {r \in ancestors : status[r] \in OPEN_STATUSES}
            found == helper.result.value
        IN  /\ helper.result.raised = "none"
            /\ found = None <=> open = {}
            /\ found # None =>
                /\ found \in open
                /\ \E k \in 1..Len(tree) :
                    /\ tree[k] = found
                    /\ \A j \in 1..(k - 1) : tree[j] \notin open

\* the open revision returned is not one the revision depends on
\* directly: those are all closed, it lies behind them
C30_Witness ==
    /\ helper.fn = "get_first_open_parent_revision"
    /\ helper.result.value # None
    /\ LET parents == helper.arg.deps[helper.arg.revision]
       IN  \A k \in 1..Len(parents) :
            /\ parents[k] # helper.result.value
            /\ helper.arg.status[parents[k]] \in CLOSED_STATUSES

\* --------------------------------------------------------------- C31
\* a walk of the dependencies is going on or has ended
Walked == helper.fn = "dependency_walk"

\* the revisions the revision depends on, directly or through others
AncestorsOf(deps, revision) ==
    Reached(deps, {revision}, Cardinality(StackRevs))

\* a circle of dependencies can be reached from the revision
CycleReachable(deps, revision) ==
    \E r \in {revision} \cup AncestorsOf(deps, revision) :
        r \in AncestorsOf(deps, r)

\* the revision and all it depends on depend on one revision at most
Linear(deps, revision) ==
    \A r \in {revision} \cup AncestorsOf(deps, revision) : Len(deps[r]) <= 1

\* C31: a walk of a dependency tree without circles yields in pre-order:
\* the revision walked from is never yielded; a revision that depends on
\* others is followed at once by the first of them; and when the
\* generator is exhausted every revision yielded has all the revisions it
\* depends on behind it, what was yielded is what the revision depends on,
\* and for a linear chain each of them was yielded once.
C31_YieldedInPreOrder ==
    (Walked /\ ~CycleReachable(helper.arg.deps, helper.arg.revision)) =>
        LET deps == helper.arg.deps
            yielded == helper.yielded
            ancestors == AncestorsOf(deps, helper.arg.revision)
        IN  /\ helper.pc # "RecursionError"
            /\ \A k \in 1..Len(yielded) :
                /\ yielded[k] # helper.arg.revision
                /\ (k < Len(yielded) /\ deps[yielded[k]] # <<>>) =>
                        yielded[k + 1] = deps[yielded[k]][1]
            /\ helper.pc = "exhausted" =>
                /\ {yielded[k] : k \in 1..Len(yielded)} = ancestors
                /\ \A k \in 1..Len(yielded) :
                    \A a \in AncestorsOf(deps, yielded[k]) :
                        \E j \in (k + 1)..Len(yielded) : yielded[j] = a
                /\ Linear(deps, helper.arg.revision) =>
                        Len(yielded) = Cardinality(ancestors)

\* the generator is exhausted after the parent, the grandparent and one
\* more of a linear chain
C31_Witness ==
    /\ Walked
    /\ helper.arg.consumer = "all"
    /\ helper.pc = "exhausted"
    /\ Linear(helper.arg.deps, helper.arg.revision)
    /\ Len(helper.yielded) = 3

\* --------------------------------------------------------------- C32
\* the walk goes all the way: its consumer takes all, or looks for an open
\* revision where the revision depends on none
GoesAllTheWay ==
    \/ helper.arg.consumer = "all"
    \/ \A r \in AncestorsOf(helper.arg.deps, helper.arg.revision) :
            helper.arg.status[r] \notin OPEN_STATUSES

AcyclicWalk ==
    Walked /\ ~CycleReachable(helper.arg.deps, helper.arg.revision)

CyclicWalk ==
    /\ Walked
    /\ CycleReachable(helper.arg.deps, helper.arg.revision)
    /\ GoesAllTheWay

\* the walk has come to its end: the generator is exhausted or the
\* consumer has returned
WalkEnded == Walked /\ helper.pc \in {"exhausted", "returned"}

\* C32 as stated: the walk of dependencies without circles comes to its
\* end, and the walk that goes all the way where a circle can be reached
\* never terminates.
C32_WalkOnCycleNeverTerminates ==
    /\ AcyclicWalk ~> WalkEnded
    /\ [](CyclicWalk => helper.pc = "running")

\* C32, amended: the walk of dependencies without circles comes to its
\* end; the walk that goes all the way where a circle can be reached is
\* never exhausted and never returns, it nests generators until the
\* interpreter ends it with RecursionError.
C32_WalkOnCycleEndsInRecursionError ==
    /\ AcyclicWalk ~> WalkEnded
    /\ [](CyclicWalk => ~WalkEnded)
    /\ CyclicWalk ~> (CyclicWalk /\ helper.pc = "RecursionError")

\* the search for an open revision has gone round a circle of closed
\* revisions until the interpreter ended it
C32_Witness ==
    /\ CyclicWalk
    /\ helper.arg.consumer = "first_open"
    /\ helper.pc = "RecursionError"
    /\ Len(helper.yielded) > Cardinality(StackRevs)

Mapped(exc, status) ==
    CASE exc = "RevisionNotFoundException" -> status = 404
      [] exc = "DiffNotFoundException" -> status = 404
      [] exc = "InactiveDiffException" -> status = 409
      [] exc = "OverrideDiffException" -> status = 409
      [] exc = "DiffNotInRevisionException" -> status = 400
      [] exc = "LandingNotCreatedException" -> status = 502
      [] exc \in {"PhabricatorAPIException",
                  "PhabricatorCommunicationException"} ->
            status \in {502, 503}
      [] OTHER -> FALSE

\* C34: every failure of Landing.create is caught by post and answered
\* with the status fixed for it, none leaves post uncaught (a 500 of the
\* framework), and 202 with the id of the landing is answered when, and
\* only when, the create succeeded.
C34_EveryFailureMapped ==
    IsPost(request) =>
        /\ response.exc # "ok" => Mapped(response.exc, response.status)
        /\ response.status # 500
        /\ response.status = 202 <=> response.exc = "ok"
        /\ response.exc = "ok" => response.id \in Ids

\* --------------------------------------------------------------- C35
\* C35: get answers 200 with the landing when, and only when, the landing
\* exists and Phabricator shows its revision to the caller; a landing that
\* does not exist and one whose revision the caller may not see are
\* answered with one and the same 404 response.
C35_LandingOrSameNotFound ==
    request.op = "get" =>
        /\ response.status = 200 <=>
                (request.landing_id \in Ids /\ request.phab.revision)
        /\ response.status = 200 =>
                response.body = {serialize(landings[request.landing_id])}
        /\ response.status # 200 =>
                response = [NoResponse EXCEPT !.status = 404]

\* a landing that exists is asked for by a caller who may not see its
\* revision
C35_Witness ==
    /\ request.op = "get"
    /\ request.landing_id \in Ids
    /\ ~request.phab.revision
    /\ response.status = 404

\* --------------------------------------------------------------- C36
\* C36: every landing in the store has a job id if and only if its status
\* is 'submitted', 'landed' or 'failed'; a landing without job id is
\* 'aborted', and no job id a pingback may name finds it.
C36_JobIdIffSubmitted ==
    \A i \in Ids :
        /\ landings[i].request_id # None <=>
                landings[i].status \in {job_submitted, "landed", "failed"}
        /\ landings[i].request_id = None =>
                /\ landings[i].status = aborted
                /\ \A request_id \in world.jobs :
                        i \notin filter_by_request_id(landings, request_id)

\* a landing left without job id next to one whose job has ended
C36_Witness ==
    \E i, j \in Ids :
        /\ landings[i].request_id = None
        /\ landings[i].status = aborted
        /\ landings[j].request_id # None
        /\ landings[j].status \in {"landed", "failed"}

\* --------------------------------------------------------------- C37
\* the step is a pingback: no create moves
PingbackStep == creating' = creating /\ IsUpdate(request')

\* C37: an authenticated pingback for a job id that Transplant has
\* returned to a create is answered 200 and applied to a landing with
\* that job id, wherever that create stands.
C37_PingbackForReturnedJobApplied ==
    [][(/\ PingbackStep
        /\ Authenticated(request')
        /\ \E call \in transplant :
                call.request_id = request'.request_id)
        => /\ response'.status = 200
           /\ \E i \in 1..Len(landings') :
                /\ landings'[i].request_id = request'.request_id
                /\ landings'[i].status \in {"landed", "failed"}]_vars

\* --------------------------------------------------------------- C39
\* C39: a landing that was 'landed' or 'failed' before a step of a create
\* or of a pingback is 'landed' or 'failed' after it: the final save of a
\* create puts no landing back to 'submitted' or 'aborted'.
C39_FinalSaveKeepsPingbackStatus ==
    \A i \in 1..Len(before.landings) :
        before.landings[i].status \in {"landed", "failed"} =>
            landings[i].status \in {"landed", "failed"}

\* a create has just made its final save, its landing is 'submitted',
\* next to a landing that a pingback had ended before
C39_Witness ==
    \E i, j \in 1..Len(before.landings) :
        /\ before.landings[i].status \in {"landed", "failed"}
        /\ landings[i].status \in {"landed", "failed"}
        /\ before.landings[j].status = aborted
        /\ landings[j].status = job_submitted
        /\ \E w \in Workers : creating[w].exc = "ok"

\* --------------------------------------------------------------- C38
\* status, error and result as the payload of a pingback gives them
TripleOf(data) ==
    <<IF data.landed THEN "landed" ELSE "failed",
      get_or_empty(data.error_msg), get_or_empty(data.result)>>

\* C38: when the two workers have each saved a pingback for one job id,
\* status, error and result of the landing are those of one of the two
\* payloads.
C38_TripleOfOnePingback ==
    (/\ \A w \in Workers : updating[w].pc = "ended" /\ updating[w].status = 200
     /\ updating["w1"].request_id = updating["w2"].request_id) =>
        LET landing == landings[updating["w1"].id]
        IN  <<landing.status, landing.error, landing.result>>
                \in {TripleOf(updating[w].data) : w \in Workers}

====
